---- MODULE Spec2Model ----
(***************************************************************************)
(* Model of ingest/ingest_foodsales.py: read_foodsales (validation and     *)
(* cleaning of a spreadsheet), and main's single database transaction      *)
(* (ensure_schema_and_tables, load_stage, merge_stage_to_prod, DROP TABLE) *)
(* against a PostgreSQL store.                                             *)
(*                                                                         *)
(* Text is a sequence of one-character strings, so that str.strip() and    *)
(* astype(str) can be computed.  Numbers are integers counted in           *)
(* thousandths (1005 is 1.005), so that numeric(18,2) rounding and the     *)
(* Int64 cast can be computed.  A nullable value is <<>> (NaN, NaT, <NA>,  *)
(* NULL) or <<v>>.                                                         *)
(*                                                                         *)
(* The store is PostgreSQL at READ COMMITTED: a statement sees what is     *)
(* committed and what its own transaction has done; DDL and TRUNCATE are   *)
(* transactional; COMMIT publishes a transaction's effects at once and     *)
(* ROLLBACK discards them.  Table-level locks, which only delay or abort   *)
(* a statement, are covered by StorageFailure and by the scheduler's       *)
(* freedom to run one transaction after the other.                         *)
(***************************************************************************)
EXTENDS Integers, Sequences, FiniteSets, TLC

\* ------------------------------------------------------------------ bounds
MaxRows == 2
MaxRuns == 2

\* ------------------------------------------------------- spreadsheet cells
\* What pd.read_excel hands over for one cell: an empty cell (NaN), text,
\* a number (in thousandths) or a datetime (in hours since the epoch).
NaN    == [t |-> "nan",  s |-> <<>>, n |-> 0]
Str(s) == [t |-> "str",  s |-> s,    n |-> 0]
Num(n) == [t |-> "num",  s |-> <<>>, n |-> n]
Dt(h)  == [t |-> "date", s |-> <<>>, n |-> h]

None    == <<>>
Some(v) == <<v>>

Range(f) == {f[i] : i \in DOMAIN f}

expected == <<"ID", "Date", "Region", "City", "Category", "Product",
              "Qty", "UnitPrice", "TotalPrice">>

\* ------------------------------------------------------------- conversions
IsSpace(ch) == ch = " "

RECURSIVE LStrip(_)
LStrip(s) == IF s # <<>> /\ IsSpace(Head(s)) THEN LStrip(Tail(s)) ELSE s

RECURSIVE RStrip(_)
RStrip(s) ==
    IF s # <<>> /\ IsSpace(s[Len(s)]) THEN RStrip(SubSeq(s, 1, Len(s) - 1)) ELSE s

\* str.strip()
Strip(s) == RStrip(LStrip(s))

DigitChars == <<"0", "1", "2", "3", "4", "5", "6", "7", "8", "9">>

IsDigit(ch) == \E i \in 1..10 : DigitChars[i] = ch

DigitVal(ch) == (CHOOSE i \in 1..10 : DigitChars[i] = ch) - 1

RECURSIVE NatToStr(_)
NatToStr(k) ==
    IF k < 10 THEN <<DigitChars[k + 1]>>
    ELSE NatToStr(k \div 10) \o <<DigitChars[(k % 10) + 1]>>

\* str() of a whole number; spreadsheet numbers in the text columns of the
\* inputs explored here are whole numbers.
IntToStr(k) == IF k < 0 THEN <<"-">> \o NatToStr(-k) ELSE NatToStr(k)

\* Series.astype(str): an empty cell becomes the text "nan".
AsStr(c) ==
    CASE c.t = "nan" -> <<"n", "a", "n">>
      [] c.t = "str" -> c.s
      [] c.t = "num" -> IntToStr(c.n \div 1000)
      [] OTHER       -> <<"d">> \o IntToStr(c.n)

RECURSIVE DigitsVal(_, _)
DigitsVal(s, acc) ==
    IF s = <<>> THEN acc ELSE DigitsVal(Tail(s), 10 * acc + DigitVal(Head(s)))

AllDigits(s) == s # <<>> /\ \A i \in 1..Len(s) : IsDigit(s[i])

\* Parsing of numeric text by pd.to_numeric: optional sign, then digits.
ParseNum(s) ==
    IF AllDigits(s) THEN Some(1000 * DigitsVal(s, 0))
    ELSE IF s # <<>> /\ Head(s) = "-" /\ AllDigits(Tail(s))
         THEN Some(-1000 * DigitsVal(Tail(s), 0))
         ELSE None

\* pd.to_numeric(errors="coerce"): unparseable values become NaN.
ToNumeric(c) ==
    CASE c.t = "num" -> Some(c.n)
      [] c.t = "str" -> ParseNum(Strip(c.s))
      [] OTHER       -> None

\* pd.to_datetime(errors="coerce"): a datetime cell keeps its timestamp, an
\* empty cell and text that is no date become NaT.  (The text cells of the
\* inputs explored here are not date-formatted.)
ToDatetime(c) == IF c.t = "date" THEN Some(c.n) ELSE None

\* Series.dt.date: the calendar day of a timestamp counted in hours.
DateOf(ts) == ts \div 24

\* astype("Int64") raises TypeError on a value with a fractional part.
IsWhole(v) == v = None \/ v[1] % 1000 = 0

ToInt64(v) == IF v = None THEN None ELSE Some(v[1] \div 1000)

\* ---------------------------------------------------------- read_foodsales
\* missing = [c for c in expected if c not in df.columns]
Missing_Unchecked(headers) == <<>>

Missing(headers) == SelectSeq(expected, LAMBDA c : c \notin headers)

\* The nine casts of one row; index is the DataFrame index label (0-based).
Coerce(i, r) ==
    [index      |-> i - 1,
     ID         |-> Strip(AsStr(r.ID)),
     Date       |-> ToDatetime(r.Date),
     Region     |-> AsStr(r.Region),
     City       |-> AsStr(r.City),
     Category   |-> AsStr(r.Category),
     Product    |-> AsStr(r.Product),
     Qty        |-> ToNumeric(r.Qty),
     UnitPrice  |-> ToNumeric(r.UnitPrice),
     TotalPrice |-> ToNumeric(r.TotalPrice)]

\* mask: "Filter out empty rows or invalid header-like rows"
Mask(t) ==
    /\ Len(t.ID) > 0
    /\ t.Date # None
    /\ t.TotalPrice # None
    /\ Strip(t.Region) # <<>>
    /\ Strip(t.Category) # <<>>
    /\ Strip(t.Product) # <<>>

\* Date to calendar date, Qty to Int64, columns renamed to snake_case.
Rename(t) ==
    [index      |-> t.index,
     id         |-> t.ID,
     date       |-> DateOf(t.Date[1]),
     region     |-> t.Region,
     city       |-> t.City,
     category   |-> t.Category,
     product    |-> t.Product,
     qty        |-> ToInt64(t.Qty),
     unitprice  |-> t.UnitPrice,
     totalprice |-> t.TotalPrice]

NonNegValue(v) == v = None \/ v[1] >= 0

NonNeg_Unfiltered(c) == TRUE

\* "Basic validation: remove negative values"
NonNeg(c) ==
    /\ NonNegValue(c.qty)
    /\ NonNegValue(c.unitprice)
    /\ NonNegValue(c.totalprice)

\* read_foodsales: the exception it raises ("none" when it returns) and the
\* DataFrame it returns.
ReadFoodsales(inp) ==
    IF Missing(inp.headers) # <<>>
    THEN [err |-> "ValueError", df |-> <<>>]
    ELSE IF ~(Range(expected) \subseteq inp.headers)
    THEN [err |-> "KeyError", df |-> <<>>]
    ELSE LET typed == [i \in 1..Len(inp.rows) |-> Coerce(i, inp.rows[i])]
         IN  IF \E i \in 1..Len(typed) : ~IsWhole(typed[i].Qty)
             THEN [err |-> "TypeError", df |-> <<>>]
             ELSE LET kept    == SelectSeq(typed, Mask)
                      renamed == [i \in 1..Len(kept) |-> Rename(kept[i])]
                  IN  [err |-> "none", df |-> SelectSeq(renamed, NonNeg)]

\* ------------------------------------------------------------ input sheets
Base ==
    [ID |-> Str(<<"a">>), Date |-> Dt(30), Region |-> Str(<<"E">>),
     City |-> Str(<<"C">>), Category |-> Str(<<"F">>), Product |-> Str(<<"P">>),
     Qty |-> Num(2000), UnitPrice |-> Num(1005), TotalPrice |-> Num(2010)]

OtherId == [Base EXCEPT !.ID = Str(<<"c">>)]

RawRows ==
    { Base,
      \* the same id once stripped, other fields different
      [Base EXCEPT !.ID = Str(<<" ", "a">>), !.Region = Str(<<"W">>)],
      \* a second id; numeric city cell, unparseable quantity
      [Base EXCEPT !.ID = Str(<<"b">>), !.City = Num(7000), !.Qty = Str(<<"x">>)],
      \* negative numbers
      [OtherId EXCEPT !.Qty = Num(-1000)],
      [OtherId EXCEPT !.UnitPrice = Str(<<"-", "5">>)],
      [OtherId EXCEPT !.TotalPrice = Num(-10)],
      \* empty cells in the text columns
      [Base EXCEPT !.ID = NaN, !.Region = NaN, !.Category = NaN, !.Product = NaN],
      \* blank text
      [OtherId EXCEPT !.ID = Str(<<" ">>)],
      [OtherId EXCEPT !.Region = Str(<<" ">>)],
      \* no date, no total
      [OtherId EXCEPT !.Date = Str(<<"x">>)],
      [OtherId EXCEPT !.TotalPrice = NaN],
      \* quantity with a fractional part
      [OtherId EXCEPT !.Qty = Num(1500)] }

AllHeaders == Range(expected)

SeqsUpTo(S, n) == UNION {[1..k -> S] : k \in 0..n}

\* Sheets with every required column.
FullSheets == {[headers |-> AllHeaders, rows |-> rs] : rs \in SeqsUpTo(RawRows, MaxRows)}

Restrict(r, H) == [c \in H |-> r[c]]

\* Sheets lacking one required column, with no data row or one.
ShortSheets ==
    UNION {{[headers |-> AllHeaders \ {c}, rows |-> <<>>],
            [headers |-> AllHeaders \ {c},
             rows    |-> <<Restrict(Base, AllHeaders \ {c})>>]} : c \in AllHeaders}

Sheets == FullSheets \cup ShortSheets

\* Sheets given to runs that execute at the same time.
MaxConcRows == 1

ConcRows ==
    { Base,
      [Base EXCEPT !.ID = Str(<<" ", "a">>), !.Region = Str(<<"W">>)],
      [Base EXCEPT !.ID = Str(<<"b">>), !.City = Num(7000), !.Qty = Str(<<"x">>)] }

ConcSheets ==
    {[headers |-> AllHeaders, rows |-> rs] : rs \in SeqsUpTo(ConcRows, MaxConcRows)}

\* ---------------------------------------------------------------- the store
\* numeric(18,2): a value in thousandths rounded to hundredths.
Round2(v) ==
    IF v = None THEN None
    ELSE IF v[1] >= 0 THEN Some(((v[1] + 5) \div 10) * 10)
         ELSE Some(-(((5 - v[1]) \div 10) * 10))

\* The table row that to_sql(index=False) writes for a DataFrame row.
ToStored(c) ==
    [id         |-> c.id,
     date       |-> c.date,
     region     |-> c.region,
     city       |-> c.city,
     category   |-> c.category,
     product    |-> c.product,
     qty        |-> c.qty,
     unitprice  |-> Round2(c.unitprice),
     totalprice |-> Round2(c.totalprice)]

Ids(T) == {r.id : r \in T}

\* chk_qty_nonneg, chk_unitprice_nonneg, chk_totalprice_nonneg
ChecksHold(r) ==
    /\ NonNegValue(r.qty)
    /\ NonNegValue(r.unitprice)
    /\ NonNegValue(r.totalprice)

\* The staging table is created LIKE production INCLUDING ALL: it has the
\* primary key on id and the three CHECK constraints.
StageAccepts(T, r) == r.id \notin Ids(T) /\ ChecksHold(r)

\* to_sql(if_exists="append"): the rows inserted in DataFrame order; the
\* first row the table rejects raises.
RECURSIVE InsertFrom(_, _, _)
InsertFrom(T, df, i) ==
    IF i > Len(df) THEN [ok |-> TRUE, rows |-> T]
    ELSE IF StageAccepts(T, ToStored(df[i]))
         THEN InsertFrom(T \cup {ToStored(df[i])}, df, i + 1)
         ELSE [ok |-> FALSE, rows |-> T]

\* ON CONFLICT (id) DO NOTHING: does the row meet an existing primary key?
Conflict_Never(P, r) == FALSE

Conflict(P, r) == r.id \in Ids(P)

Seed == ToStored(ReadFoodsales([headers |-> AllHeaders,
            rows |-> <<[Base EXCEPT !.Region = Str(<<"S">>)]>>]).df[1])

\* A row found in a staging table that was there before the run.
Residue == [Seed EXCEPT !.id = <<"r">>]

NoDb == [schema |-> FALSE, prodExists |-> FALSE, prod |-> {},
         stageExists |-> FALSE, stage |-> {}]

\* Stores a run can meet: nothing yet; the production table of earlier
\* runs; and, with it, a table already there under the staging name.
InitDbs ==
    { NoDb }
    \cup {[schema |-> TRUE, prodExists |-> TRUE, prod |-> {Seed},
           stageExists |-> se, stage |-> IF se THEN {Residue} ELSE {}] :
             se \in BOOLEAN}

ConcInitDbs == { [NoDb EXCEPT !.schema = TRUE],
                 [NoDb EXCEPT !.schema = TRUE, !.prodExists = TRUE] }

\* What one open transaction has done and not yet committed.
NoTx == [schemaCreated |-> FALSE, prodCreated |-> FALSE, ins |-> {},
         stageTouched |-> FALSE, stageExists |-> FALSE, stage |-> {}]

\* The store once the transaction's effects are committed.
Apply(d, t) ==
    [schema      |-> d.schema \/ t.schemaCreated,
     prodExists  |-> d.prodExists \/ t.prodCreated,
     prod        |-> d.prod \cup t.ins,
     stageExists |-> IF t.stageTouched THEN t.stageExists ELSE d.stageExists,
     stage       |-> IF t.stageTouched THEN t.stage ELSE d.stage]

Commit_Replace(d, t) == [Apply(d, t) EXCEPT !.prod = t.ins]

\* "with eng.begin() as con" left normally: COMMIT.
Commit(d, t) == Apply(d, t)

Rollback_Partial(d, t) == Apply(d, t)

\* "with eng.begin() as con" left by an exception: ROLLBACK.
Rollback(d, t) == d

\* ------------------------------------------------------------------- state
Procs == {1, 2}

VARIABLES
    procs,     \* the processes that run the pipeline
    db,        \* the committed content of the store
    pc,        \* where each process is in main()
    input,     \* the sheet each process reads
    df,        \* the DataFrame read_foodsales returned
    tx,        \* the uncommitted effects of each process's transaction
    scanned,   \* ids of the staging rows the merge statement has handled
    inserted,  \* rowcount of the merge statement
    exitcode,  \* process exit status, -1 while running
    err,       \* the exception that ended the run
    opened,    \* a storage connection was opened by this run
    nstmt,     \* storage statements issued by this run
    ops,       \* staging-table statements issued by this run, in order
    pre,       \* the committed store when the run started
    repeat,    \* the run repeats the input of the process's committed last run
    overlap,   \* a merge ran while another transaction was open
    nruns      \* runs started

vars == <<procs, db, pc, input, df, tx, scanned, inserted, exitcode, err,
          opened, nstmt, ops, pre, repeat, overlap, nruns>>

TxnSteps == {"ensure", "create_stage", "truncate", "to_sql", "merge", "drop", "commit"}

Ended == {"done", "exit1", "exit2"}

InFlight(q) == pc[q] \in TxnSteps

\* What process p's statements see: committed rows and its own changes.
ProdRows(p) == db.prod \cup tx[p].ins
StageExists(p) == IF tx[p].stageTouched THEN tx[p].stageExists ELSE db.stageExists
StageRows(p) == IF tx[p].stageTouched THEN tx[p].stage ELSE db.stage

SheetsFor(P) == IF Cardinality(P) = 1 THEN Sheets ELSE ConcSheets

InitRest ==
    /\ pc = [p \in Procs |-> "idle"]
    /\ input = [p \in Procs |-> [headers |-> AllHeaders, rows |-> <<>>]]
    /\ df = [p \in Procs |-> <<>>]
    /\ tx = [p \in Procs |-> NoTx]
    /\ scanned = [p \in Procs |-> {}]
    /\ inserted = [p \in Procs |-> 0]
    /\ exitcode = [p \in Procs |-> -1]
    /\ err = [p \in Procs |-> "none"]
    /\ opened = [p \in Procs |-> FALSE]
    /\ nstmt = [p \in Procs |-> 0]
    /\ ops = [p \in Procs |-> <<>>]
    /\ pre = [p \in Procs |-> db]
    /\ repeat = [p \in Procs |-> FALSE]
    /\ overlap = FALSE
    /\ nruns = 0

\* One operator running the batch job, run after run.
Init == procs = {1} /\ db \in InitDbs /\ InitRest

\* Two processes started against the same store and table names.
InitConc == procs = Procs /\ db \in ConcInitDbs /\ InitRest

\* ----------------------------------------------------------------- actions
NoSheet == [headers |-> AllHeaders, rows |-> <<>>]

\* A process is started on a sheet (EXCEL_PATH, EXCEL_SHEET, HEADER_ROW).
StartRun(p) ==
    /\ pc[p] = "idle"
    /\ nruns < MaxRuns
    /\ \E sheet \in (IF repeat[p] THEN {input[p]} ELSE SheetsFor(procs)) :
          input' = [input EXCEPT ![p] = sheet]
    /\ nruns' = nruns + 1
    /\ pre' = [pre EXCEPT ![p] = db]
    /\ pc' = [pc EXCEPT ![p] = "read"]
    /\ UNCHANGED <<procs, db, df, tx, scanned, inserted, exitcode, err,
                   opened, nstmt, ops, repeat, overlap>>

\* The process is gone and nothing of the run is left but the store.  The
\* operator either re-invokes the same command on the same file right after
\* a successful run (again), or moves on.
ProcessExit(p, again) ==
    /\ pc[p] \in Ended
    /\ nruns < MaxRuns
    /\ again => pc[p] = "done"
    /\ repeat' = [repeat EXCEPT ![p] = again]
    /\ input' = [input EXCEPT ![p] = IF again THEN @ ELSE NoSheet]
    /\ pre' = [pre EXCEPT ![p] = db]
    /\ pc' = [pc EXCEPT ![p] = "idle"]
    /\ df' = [df EXCEPT ![p] = <<>>]
    /\ scanned' = [scanned EXCEPT ![p] = {}]
    /\ inserted' = [inserted EXCEPT ![p] = 0]
    /\ exitcode' = [exitcode EXCEPT ![p] = -1]
    /\ err' = [err EXCEPT ![p] = "none"]
    /\ opened' = [opened EXCEPT ![p] = FALSE]
    /\ nstmt' = [nstmt EXCEPT ![p] = 0]
    /\ ops' = [ops EXCEPT ![p] = <<>>]
    /\ UNCHANGED <<procs, db, tx, overlap, nruns>>

\* main: df = read_foodsales(...); any exception there is sys.exit(1).
Read(p) ==
    /\ pc[p] = "read"
    /\ LET r == ReadFoodsales(input[p])
       IN  IF r.err # "none"
           THEN /\ pc' = [pc EXCEPT ![p] = "exit1"]
                /\ exitcode' = [exitcode EXCEPT ![p] = 1]
                /\ err' = [err EXCEPT ![p] = r.err]
                /\ UNCHANGED df
           ELSE /\ pc' = [pc EXCEPT ![p] = "begin"]
                /\ df' = [df EXCEPT ![p] = r.df]
                /\ UNCHANGED <<exitcode, err>>
    /\ UNCHANGED <<procs, db, input, tx, scanned, inserted, opened, nstmt,
                   ops, pre, repeat, overlap, nruns>>

\* eng.begin(): the (lazy) engine connects and opens the transaction.
Begin(p) ==
    /\ pc[p] = "begin"
    /\ pc' = [pc EXCEPT ![p] = "ensure"]
    /\ opened' = [opened EXCEPT ![p] = TRUE]
    /\ UNCHANGED <<procs, db, input, df, tx, scanned, inserted, exitcode, err,
                   nstmt, ops, pre, repeat, overlap, nruns>>

\* ensure_schema_and_tables: CREATE SCHEMA / TABLE / INDEX IF NOT EXISTS in
\* one execute.  The table's indexes are created with it and are not tracked
\* apart from it.  A name another open transaction has created is held by
\* the catalog's unique index until that transaction ends.
EnsureSchemaAndTables(p) ==
    /\ pc[p] = "ensure"
    /\ \A q \in procs \ {p} :
          InFlight(q) => ~tx[q].schemaCreated /\ ~tx[q].prodCreated
    /\ tx' = [tx EXCEPT ![p].schemaCreated = ~db.schema,
                        ![p].prodCreated = ~db.prodExists]
    /\ nstmt' = [nstmt EXCEPT ![p] = @ + 1]
    /\ pc' = [pc EXCEPT ![p] = "create_stage"]
    /\ UNCHANGED <<procs, db, input, df, scanned, inserted, exitcode, err,
                   opened, ops, pre, repeat, overlap, nruns>>

\* load_stage, first statement: CREATE TABLE IF NOT EXISTS stage (LIKE prod
\* INCLUDING ALL).
CreateStage(p) ==
    /\ pc[p] = "create_stage"
    /\ tx' = IF StageExists(p) THEN tx
             ELSE [tx EXCEPT ![p].stageTouched = TRUE,
                             ![p].stageExists = TRUE,
                             ![p].stage = {}]
    /\ ops' = [ops EXCEPT ![p] = Append(@, "create")]
    /\ nstmt' = [nstmt EXCEPT ![p] = @ + 1]
    /\ pc' = [pc EXCEPT ![p] = "truncate"]
    /\ UNCHANGED <<procs, db, input, df, scanned, inserted, exitcode, err,
                   opened, pre, repeat, overlap, nruns>>

Truncated_Kept(T) == T

\* TRUNCATE TABLE stage
Truncated(T) == {}

\* load_stage, second statement.
Truncate(p) ==
    /\ pc[p] = "truncate"
    /\ tx' = [tx EXCEPT ![p].stageTouched = TRUE,
                        ![p].stageExists = TRUE,
                        ![p].stage = Truncated(StageRows(p))]
    /\ ops' = [ops EXCEPT ![p] = Append(@, "truncate")]
    /\ nstmt' = [nstmt EXCEPT ![p] = @ + 1]
    /\ pc' = [pc EXCEPT ![p] = "to_sql"]
    /\ UNCHANGED <<procs, db, input, df, scanned, inserted, exitcode, err,
                   opened, pre, repeat, overlap, nruns>>

\* An exception inside "with eng.begin()": rollback, then sys.exit(2).  The
\* statement cursor and the record of statements go with the failed
\* transaction; inserted stays what the merge had counted when it failed.
Fail(p, e) ==
    /\ db' = Rollback(db, tx[p])
    /\ tx' = [tx EXCEPT ![p] = NoTx]
    /\ pc' = [pc EXCEPT ![p] = "exit2"]
    /\ exitcode' = [exitcode EXCEPT ![p] = 2]
    /\ err' = [err EXCEPT ![p] = e]
    /\ scanned' = [scanned EXCEPT ![p] = {}]
    /\ nstmt' = [nstmt EXCEPT ![p] = 0]
    /\ ops' = [ops EXCEPT ![p] = <<>>]

\* load_stage, third statement: df.to_sql into the staging table.
ToSql(p) ==
    /\ pc[p] = "to_sql"
    /\ LET r == InsertFrom(StageRows(p), df[p], 1)
       IN  IF r.ok
           THEN /\ tx' = [tx EXCEPT ![p].stage = r.rows]
                /\ pc' = [pc EXCEPT ![p] = "merge"]
                /\ ops' = [ops EXCEPT ![p] = Append(@, "populate")]
                /\ nstmt' = [nstmt EXCEPT ![p] = @ + 1]
                /\ UNCHANGED <<db, exitcode, err, scanned>>
           ELSE Fail(p, "IntegrityError")
    /\ UNCHANGED <<procs, input, df, inserted, opened, pre, repeat, overlap,
                   nruns>>

Blocked_Never(p, r) == FALSE

\* The primary key's unique index: an insert of an id that another open
\* transaction has inserted waits until that transaction ends.
Blocked(p, r) == \E q \in procs \ {p} : InFlight(q) /\ r.id \in Ids(tx[q].ins)

\* merge_stage_to_prod: INSERT .. SELECT .. ON CONFLICT (id) DO NOTHING, one
\* staging row at a time, in whatever order the scan yields them.
MergeRow(p) ==
    /\ pc[p] = "merge"
    /\ \E s \in StageRows(p) :
         /\ s.id \notin scanned[p]
         /\ ~Blocked(p, s)
         /\ scanned' = [scanned EXCEPT ![p] = @ \cup {s.id}]
         /\ IF Conflict(ProdRows(p), s)
            THEN UNCHANGED <<tx, inserted>>
            ELSE /\ tx' = [tx EXCEPT ![p].ins = @ \cup {s}]
                 /\ inserted' = [inserted EXCEPT ![p] = @ + 1]
    /\ overlap' = (overlap \/ \E q \in procs \ {p} : InFlight(q))
    /\ UNCHANGED <<procs, db, pc, input, df, exitcode, err, opened, nstmt,
                   ops, pre, repeat, nruns>>

\* The merge statement returns; inserted = res.rowcount or 0.
MergeDone(p) ==
    /\ pc[p] = "merge"
    /\ Ids(StageRows(p)) \subseteq scanned[p]
    /\ ops' = [ops EXCEPT ![p] = Append(@, "merge")]
    /\ nstmt' = [nstmt EXCEPT ![p] = @ + 1]
    /\ pc' = [pc EXCEPT ![p] = "drop"]
    /\ UNCHANGED <<procs, db, input, df, tx, scanned, inserted, exitcode, err,
                   opened, pre, repeat, overlap, nruns>>

Dropped_Kept(t) == t

\* DROP TABLE IF EXISTS stage
Dropped(t) == [t EXCEPT !.stageTouched = TRUE, !.stageExists = FALSE, !.stage = {}]

DropStage(p) ==
    /\ pc[p] = "drop"
    /\ tx' = [tx EXCEPT ![p] = Dropped(@)]
    /\ ops' = [ops EXCEPT ![p] = Append(@, "drop")]
    /\ nstmt' = [nstmt EXCEPT ![p] = @ + 1]
    /\ pc' = [pc EXCEPT ![p] = "commit"]
    /\ UNCHANGED <<procs, db, input, df, scanned, inserted, exitcode, err,
                   opened, pre, repeat, overlap, nruns>>

\* The with-block ends: COMMIT, the [GOAL] line, exit status 0.
CommitRun(p) ==
    /\ pc[p] = "commit"
    /\ db' = Commit(db, tx[p])
    /\ tx' = [tx EXCEPT ![p] = NoTx]
    /\ pc' = [pc EXCEPT ![p] = "done"]
    /\ exitcode' = [exitcode EXCEPT ![p] = 0]
    /\ UNCHANGED <<procs, input, df, scanned, inserted, err, opened, nstmt,
                   ops, pre, repeat, overlap, nruns>>

\* The store fails a step (connection lost, privilege, deadlock victim ...):
\* the connect itself or any statement up to and including COMMIT.
StorageFailure(p) ==
    /\ pc[p] \in {"begin"} \cup TxnSteps
    /\ Fail(p, "OperationalError")
    /\ UNCHANGED <<procs, input, df, inserted, opened, pre, repeat, overlap,
                   nruns>>

Next ==
    \/ \E p \in procs : StartRun(p)
    \/ \E p \in procs : Read(p)
    \/ \E p \in procs : Begin(p)
    \/ \E p \in procs : EnsureSchemaAndTables(p)
    \/ \E p \in procs : CreateStage(p)
    \/ \E p \in procs : Truncate(p)
    \/ \E p \in procs : ToSql(p)
    \/ \E p \in procs : MergeRow(p)
    \/ \E p \in procs : MergeDone(p)
    \/ \E p \in procs : DropStage(p)
    \/ \E p \in procs : CommitRun(p)
    \/ \E p \in procs : StorageFailure(p)
    \/ \E p \in procs, again \in BOOLEAN : ProcessExit(p, again)

Spec == Init /\ [][Next]_vars

SpecConc == InitConc /\ [][Next]_vars

\* ------------------------------------------------------------------ claims
Running(p) == pc[p] = "begin" \/ InFlight(p)

StoredDf(p) == {ToStored(df[p][i]) : i \in 1..Len(df[p])}

\* C1: a run that repeats, on the same sheet, the process's last committed
\* run leaves the store exactly as that run left it, and when it commits its
\* reported rows_inserted is 0.
C1_Idempotent ==
    \A p \in procs :
        (repeat[p] /\ pc[p] \in Ended) =>
            /\ db = pre[p]
            /\ pc[p] = "done" => inserted[p] = 0

C1_Witness ==
    \E p \in procs :
        /\ repeat[p] /\ pc[p] = "done"
        /\ Len(df[p]) > 0
        /\ Ids(StoredDf(p)) \subseteq Ids(db.prod)

\* C2: while a run's transaction is open nothing of it is committed, and a
\* run ended by a failure inside the transaction leaves the whole store
\* (tables and rows) as it was before the run and exits with status 2.
C2_Atomic ==
    \A p \in procs :
        /\ Running(p) => db = pre[p]
        /\ pc[p] = "exit2" => (db = pre[p] /\ exitcode[p] = 2)

C2_Witness ==
    \E p \in procs :
        /\ pc[p] = "exit2"
        /\ inserted[p] > 0
        /\ \E r \in StoredDf(p) : r.id \notin Ids(db.prod)

\* Two rows of the DataFrame share an id and differ elsewhere.
SharedIds(p) ==
    {df[p][i].id : i \in {k \in 1..Len(df[p]) :
        \E j \in 1..Len(df[p]) :
            /\ j # k
            /\ df[p][j].id = df[p][k].id
            /\ ToStored(df[p][j]) # ToStored(df[p][k])}}

FirstWith(p, id) ==
    df[p][CHOOSE i \in 1..Len(df[p]) :
            /\ df[p][i].id = id
            /\ \A j \in 1..(i - 1) : df[p][j].id # id]

\* C3: a run whose clean rows hold two rows with one id and different other
\* fields, and which the store does not fail, completes, and production then
\* holds for that id the row it had or else the first of the two.
C3_DuplicateTolerated ==
    \A p \in procs :
        (pc[p] \in Ended /\ err[p] # "OperationalError" /\ SharedIds(p) # {}) =>
            /\ pc[p] = "done"
            /\ \A id \in SharedIds(p) \ Ids(pre[p].prod) :
                  {r \in db.prod : r.id = id} = {ToStored(FirstWith(p, id))}

FullSheet(p) == AllHeaders \subseteq input[p].headers

\* C4: a run on a sheet lacking a required column ends in read_foodsales with
\* the missing-columns error and exit status 1, having opened no connection,
\* issued no statement and changed nothing in the store.
C4_SchemaEnforced ==
    \A p \in procs :
        (~FullSheet(p) /\ pc[p] \notin {"idle", "read"}) =>
            /\ pc[p] = "exit1"
            /\ exitcode[p] = 1
            /\ err[p] = "ValueError"
            /\ ~opened[p]
            /\ nstmt[p] = 0
            /\ db = pre[p]

C4_Witness ==
    \E p \in procs :
        /\ pc[p] = "exit1"
        /\ ~FullSheet(p)
        /\ Len(input[p].rows) > 0

Negative(v) == v # None /\ v[1] < 0

RawNegative(raw) ==
    \/ Negative(ToNumeric(raw.Qty))
    \/ Negative(ToNumeric(raw.UnitPrice))
    \/ Negative(ToNumeric(raw.TotalPrice))

Kept(p) == {df[p][i].index + 1 : i \in 1..Len(df[p])}

\* C5: no row of the sheet with a negative Qty, UnitPrice or TotalPrice is
\* in the DataFrame read_foodsales returns, and no production row, committed
\* or being inserted, has a negative qty, unitprice or totalprice.
C5_NonNegative ==
    \A p \in procs :
        /\ \A k \in Kept(p) : ~RawNegative(input[p].rows[k])
        /\ \A i \in 1..Len(df[p]) : ChecksHold(df[p][i])
        /\ \A r \in db.prod \cup tx[p].ins : ChecksHold(r)

C5_Witness ==
    \E p \in procs :
        /\ pc[p] = "done"
        /\ inserted[p] > 0
        /\ FullSheet(p)
        /\ \E k \in 1..Len(input[p].rows) : RawNegative(input[p].rows[k])

\* A cell that is neither empty nor blank.
Present(c) == c.t # "nan" /\ (c.t = "str" => Strip(c.s) # <<>>)

\* C6: every row read_foodsales keeps has, in the sheet, an ID, Region,
\* Category and Product cell that is neither empty nor blank, a date that
\* parses and a TotalPrice that is a number.
C6_Admission ==
    \A p \in procs :
        \A k \in Kept(p) :
            LET raw == input[p].rows[k]
            IN  /\ Present(raw.ID)
                /\ Present(raw.Region)
                /\ Present(raw.Category)
                /\ Present(raw.Product)
                /\ ToDatetime(raw.Date) # None
                /\ ToNumeric(raw.TotalPrice) # None

\* C7: no step of any run, committed or failed, removes or changes a
\* committed production row.
C7_AppendOnly == [][db.prod \subseteq db'.prod]_vars

C7_Witness ==
    \E p \in procs :
        /\ pc[p] = "done"
        /\ \E r \in StoredDf(p) :
              /\ r.id \in Ids(pre[p].prod)
              /\ r \notin db.prod

\* C8: after a committed run, rows_inserted is the number of rows production
\* grew by, and the new rows are exactly the stored form of the clean rows
\* whose id production did not hold before; nothing that was in a staging
\* table before the run is among them unless the sheet brought it.
C8_MergeCount ==
    \A p \in procs :
        pc[p] = "done" =>
            /\ pre[p].prod \subseteq db.prod
            /\ inserted[p] = Cardinality(db.prod) - Cardinality(pre[p].prod)
            /\ db.prod \ pre[p].prod =
                  {r \in StoredDf(p) : r.id \notin Ids(pre[p].prod)}

C8_Witness ==
    \E p \in procs :
        /\ pc[p] = "done"
        /\ pre[p].stage # {}
        /\ inserted[p] > 0
        /\ inserted[p] < Len(df[p])

StageOrder == <<"create", "truncate", "populate", "merge", "drop">>

IsPrefix(s, t) == Len(s) <= Len(t) /\ s = SubSeq(t, 1, Len(s))

C10_UniqueIds == \A r1, r2 \in db.prod : r1.id = r2.id => r1 = r2

C10_Witness ==
    /\ overlap
    /\ \A p \in Procs : pc[p] = "done"
    /\ \E i \in 1..Len(df[1]), j \in 1..Len(df[2]) :
          /\ df[1][i].id = df[2][j].id
          /\ ToStored(df[1][i]) # ToStored(df[2][j])
          /\ df[1][i].id \in Ids(db.prod)

====
